---- MODULE Spec2Model ----
(***************************************************************************)
(* Model of C++/subsets.cpp: generateSubsets, the recursive backtracking   *)
(* enumeration of all subsets of a vector<int>, as a machine with an       *)
(* explicit call stack.  One action per statement of the function body.    *)
(* Indices are 0-based as in the source; nums[index] of the source is      *)
(* nums[index + 1] of the TLA+ sequence.                                   *)
(***************************************************************************)
EXTENDS Integers, Sequences, FiniteSets

\* Bounds of the model: longest input and largest element value.
MaxLen == 3
MaxVal == 3

Values == 1..MaxVal

\* All input vectors up to the bounds.
Inputs == UNION {[1..n -> Values] : n \in 0..MaxLen}

\* The example input built by main.
MainNums == <<1, 2, 3>>

VARIABLES
    nums,        \* the input vector (never written by generateSubsets)
    current,     \* the path buffer, passed by reference
    result,      \* the result collection, passed by reference
    stack,       \* call stack of generateSubsets, innermost frame last
    run,         \* 1: first generation, 2: second generation on the same input
    firstResult  \* the result collection of the first generation, once finished

vars == <<nums, current, result, stack, run, firstResult>>

\* A frame: the index argument, the line the frame executes next, and (history
\* only, read by no action) the value of current when the call was entered.
Frame(index, cur) == [index |-> index, pc |-> "L5", entry |-> cur]

Top == stack[Len(stack)]

SetTopPc(pc) == [stack EXCEPT ![Len(stack)].pc = pc]

Return == SubSeq(stack, 1, Len(stack) - 1)

\* The top-level call of main, with fresh empty buffers, has returned.
Done == stack = <<>>

\* Line 5: index == nums.size()
AtEndOffByOne(index) == index = Len(nums) + 1

AtEnd(index) == index = Len(nums)

\* Variants of the element read: push_back(index), nums[0], and reading
\* nums from its far end.
ElementAtIndex(index) == {index}

ElementAtFirst(index) == {nums[1]}

ElementAtMirrored(index) == {nums[Len(nums) - index]}

\* nums[index]: an out-of-range read of a vector is undefined, any value may
\* come back.
ElementAt(index) ==
    IF index >= 0 /\ index < Len(nums) THEN {nums[index + 1]} ELSE Values

\* Variant: the undo is missing.
PopBackOfNoop(s) == s

\* vector::pop_back
PopBackOf(s) == SubSeq(s, 1, Len(s) - 1)

Init ==
    /\ nums \in Inputs
    /\ current = <<>>
    /\ result = <<>>
    /\ stack = <<Frame(0, <<>>)>>
    /\ run = 1
    /\ firstResult = <<>>

\* Variant: the base case stores current through a container without a
\* defined iteration order, so either order of its elements may be stored.
BaseCaseNondet ==
    /\ stack # <<>>
    /\ Top.pc = "L5"
    /\ AtEnd(Top.index)
    /\ \E c \in {current, [i \in 1..Len(current) |-> current[Len(current) + 1 - i]]} :
           result' = Append(result, c)
    /\ stack' = Return
    /\ UNCHANGED <<nums, current, run, firstResult>>

\* Variant: the base case stores only non-empty paths.
BaseCaseSkipEmpty ==
    /\ stack # <<>>
    /\ Top.pc = "L5"
    /\ AtEnd(Top.index)
    /\ result' = IF current = <<>> THEN result ELSE Append(result, current)
    /\ stack' = Return
    /\ UNCHANGED <<nums, current, run, firstResult>>

\* Lines 5-8: the base case stores a copy of current and returns.
BaseCase ==
    /\ stack # <<>>
    /\ Top.pc = "L5"
    /\ AtEnd(Top.index)
    /\ result' = Append(result, current)
    /\ stack' = Return
    /\ UNCHANGED <<nums, current, run, firstResult>>

\* Variant: the call of line 10 is missing.
CallExcludeSkipped ==
    /\ stack # <<>>
    /\ Top.pc = "L5"
    /\ ~AtEnd(Top.index)
    /\ stack' = SetTopPc("L12")
    /\ UNCHANGED <<nums, current, result, run, firstResult>>

\* Variant: the two branches in the other order.  Not the base case: add
\* nums[index] and call (returning to I1); at I1 undo and call without the
\* element (returning to I2); at I2 return.
CallExcludeIncludeFirst ==
    /\ stack # <<>>
    /\ \/ /\ Top.pc = "L5"
          /\ ~AtEnd(Top.index)
          /\ \E x \in {nums[Top.index + 1]} :
                 /\ current' = Append(current, x)
                 /\ stack' = Append(SetTopPc("I1"), Frame(Top.index + 1, current'))
       \/ /\ Top.pc = "I1"
          /\ current' = SubSeq(current, 1, Len(current) - 1)
          /\ stack' = Append(SetTopPc("I2"), Frame(Top.index + 1, current'))
       \/ /\ Top.pc = "I2"
          /\ current' = current
          /\ stack' = SubSeq(stack, 1, Len(stack) - 1)
    /\ UNCHANGED <<nums, result, run, firstResult>>

\* Lines 5 and 10: not the base case, call with index + 1 before adding
\* nums[index]; the call returns to line 12.
CallExclude ==
    /\ stack # <<>>
    /\ Top.pc = "L5"
    /\ ~AtEnd(Top.index)
    /\ stack' = Append(SetTopPc("L12"), Frame(Top.index + 1, current))
    /\ UNCHANGED <<nums, current, result, run, firstResult>>

\* Variant: result holds the last stored path by reference, so a push_back on
\* current shows through the stored entry.
PushBackAlias ==
    /\ stack # <<>>
    /\ Top.pc = "L12"
    /\ \E x \in ElementAt(Top.index) : current' = Append(current, x)
    /\ result' = IF result = <<>> THEN result
                 ELSE [result EXCEPT ![Len(result)] = current']
    /\ stack' = SetTopPc("L13")
    /\ UNCHANGED <<nums, run, firstResult>>

\* Line 12: current.push_back(nums[index])
PushBack ==
    /\ stack # <<>>
    /\ Top.pc = "L12"
    /\ \E x \in ElementAt(Top.index) : current' = Append(current, x)
    /\ stack' = SetTopPc("L13")
    /\ UNCHANGED <<nums, result, run, firstResult>>

\* Line 13: call with index + 1 after adding nums[index]; returns to line 14.
CallInclude ==
    /\ stack # <<>>
    /\ Top.pc = "L13"
    /\ stack' = Append(SetTopPc("L14"), Frame(Top.index + 1, current))
    /\ UNCHANGED <<nums, current, result, run, firstResult>>

\* Lines 14-15: current.pop_back() and return.
PopBack ==
    /\ stack # <<>>
    /\ Top.pc = "L14"
    /\ current' = PopBackOf(current)
    /\ stack' = Return
    /\ UNCHANGED <<nums, result, run, firstResult>>

\* Lines 19-22 once more on the same nums: fresh result and current, and the
\* top-level call generateSubsets(nums, 0, current, result).
Rerun ==
    /\ Done
    /\ run = 1
    /\ firstResult' = result
    /\ result' = <<>>
    /\ current' = <<>>
    /\ stack' = <<Frame(0, <<>>)>>
    /\ run' = 2
    /\ UNCHANGED nums

Next ==
    \/ BaseCase
    \/ CallExclude
    \/ PushBack
    \/ CallInclude
    \/ PopBack
    \/ Rerun

Spec == Init /\ [][Next]_vars

\* The program is sequential: a step that can be taken is taken.
FairSpec == Spec /\ WF_vars(Next)

(***************************************************************************)
(* Vocabulary of the properties.                                           *)
(***************************************************************************)
Pow2(n) == 2 ^ n

\* The elements of s at the positions in S (1-based), in increasing order of
\* position.
Pick(s, S) ==
    LET F[i \in 0..Len(s)] ==
            IF i = 0 THEN <<>>
            ELSE IF i \in S THEN Append(F[i - 1], s[i]) ELSE F[i - 1]
    IN  F[Len(s)]

IsSubSequence(e, s) == \E S \in SUBSET (1..Len(s)) : e = Pick(s, S)

Count(s, e) == Cardinality({i \in 1..Len(s) : s[i] = e})

NoDuplicates(s) == \A i, j \in 1..Len(s) : i # j => s[i] # s[j]

IsPrefix(s, t) == Len(s) <= Len(t) /\ SubSeq(t, 1, Len(s)) = s

Bit(k, b) == (k \div Pow2(b)) % 2

\* The sub-sequence of s holding s[i] (0-based i) iff bit Len(s)-1-i of k is 1.
KthSubset(s, k) ==
    Pick(s, {i + 1 : i \in {j \in 0..(Len(s) - 1) : Bit(k, Len(s) - 1 - j) = 1}})

\* C1: when the top-level call started with empty buffers has returned, result
\* holds exactly 2^n entries, n the length of nums (one entry for n = 0).
C1_Count == Done => Len(result) = Pow2(Len(nums))

C1_Witness == Done /\ Len(nums) = 3 /\ Len(result) = 8

\* C2: for nums = {1,2,3} the finished result is, in this order,
\* {}, {3}, {2}, {2,3}, {1}, {1,3}, {1,2}, {1,2,3}.
C2_Example ==
    (Done /\ nums = MainNums) =>
        result = << <<>>, <<3>>, <<2>>, <<2, 3>>, <<1>>, <<1, 3>>, <<1, 2>>, <<1, 2, 3>> >>

C2_Witness == Done /\ nums = MainNums /\ run = 1 /\ result # <<>>

\* C3 as stated: for every input, no sequence occurs twice in the finished
\* result.
C3_Original == Done => NoDuplicates(result)

\* C3 amended: for every input whose elements are pairwise distinct, no
\* sequence occurs twice in the finished result.
C3_DistinctInput == (Done /\ NoDuplicates(nums)) => NoDuplicates(result)

C3_Witness == Done /\ NoDuplicates(nums) /\ Len(nums) = 3 /\ Len(result) > 1

\* C4: every entry of the finished result is a sub-sequence of nums: the
\* elements at some set of positions of nums, in their original order.
C4_SubSequence == Done => \A i \in 1..Len(result) : IsSubSequence(result[i], nums)

C4_Witness ==
    Done /\ Len(nums) = 3 /\ \E i \in 1..Len(result) : Len(result[i]) = 2

\* C5: in the finished result the empty sequence occurs exactly once and the
\* full sequence nums occurs exactly once.
C5_EmptyAndFull == Done => Count(result, <<>>) = 1 /\ Count(result, nums) = 1

C5_Witness ==
    Done /\ Len(nums) >= 2 /\ ~NoDuplicates(nums) /\ Count(result, nums) = 1

\* C6: every return of a call of generateSubsets leaves current equal to its
\* value when that call was entered, and after the top-level call has returned
\* current is empty.
C6_Restore ==
    /\ [][Len(stack') < Len(stack) => current' = Top.entry]_vars
    /\ [](Done => current = <<>>)

C6_Witness == Done /\ current = <<>> /\ Len(result) >= 4

\* C7: two generations on the same input, each with fresh empty buffers, end
\* with identical result collections.
C7_Deterministic == (run = 2 /\ Done) => result = firstResult

C7_Witness == run = 2 /\ Done /\ Len(firstResult) >= 4 /\ result = firstResult

\* C8: within a generation result only grows at its end: every step leaves
\* the entries already stored unchanged, so the earlier result is a prefix of
\* the later one.
C8_AppendOnly == [][run' = run => IsPrefix(result, result')]_vars

C8_Witness ==
    /\ stack # <<>>
    /\ Top.pc = "L14"
    /\ Len(result) >= 2
    /\ Len(current) >= 2

\* C9: the top-level call terminates; the index of every call lies in 0..n;
\* nums is read only at positions below n; the nesting of calls beneath the
\* top-level call never exceeds n and reaches n.
C9_Depth ==
    /\ <>Done
    /\ [](\A i \in 1..Len(stack) : stack[i].index \in 0..Len(nums))
    /\ [](\A i \in 1..Len(stack) :
            stack[i].pc = "L12" => stack[i].index < Len(nums))
    /\ [](Len(stack) <= Len(nums) + 1)
    /\ <>(Len(stack) = Len(nums) + 1)

C9_Witness == Len(nums) = 3 /\ Len(stack) = 4 /\ Top.index = 3

\* C10: for every k in 0..2^n-1 the k-th entry (0-based) of the finished
\* result is the sub-sequence of nums that holds nums[i] iff bit n-1-i of k is
\* 1.
C10_BinaryOrder ==
    Done =>
        /\ Len(result) = Pow2(Len(nums))
        /\ \A k \in 0..(Pow2(Len(nums)) - 1) : result[k + 1] = KthSubset(nums, k)

C10_Witness == Done /\ Len(nums) = 3 /\ result[6] = <<nums[1], nums[3]>>

====
